---- MODULE Spec2Model ----
(***************************************************************************)
(* ProxyHawkClient (src/clients/python/proxyhawk_client.py): the asyncio   *)
(* WebSocket client, modelled as the tasks of one event loop.  A step of   *)
(* the model is what one task does between two suspension points (await):  *)
(* the controller task that calls connect()/disconnect(), the caller tasks *)
(* that each run one request operation, one _message_receiver task per     *)
(* transport, one _heartbeat task per successful connect, and the peer.    *)
(***************************************************************************)
EXTENDS Integers, Sequences, FiniteSets, TLC

(* ------------------------------ bounds ------------------------------- *)

\* concurrent caller tasks, each running one request operation
NumCallers == 3
\* transports the controller may open (calls of connect that reach the peer)
MaxConnects == 2
\* message ids the session may generate (requests and heartbeat pings)
MaxIds == 3
\* largest reading of the millisecond clock (time.time() does not go back)
MaxClock == 1
\* longest domain list given to batch_test
MaxBatch == 3
\* domain_update pushes the peer sends
MaxUpdates == 1
\* envelopes the peer sends in answer to one batch request
MaxChunks == 3
\* malformed messages a peer sends
MaxDropped == 2

Callers == 1..NumCallers
Transports == 1..MaxConnects
Clock == 0..MaxClock

\* domain names; batch_test is given a prefix of this list
DomainNames == <<"a.com", "b.com", "c.com", "d.com", "e.com">>
BatchList(n) == [i \in 1..n |-> DomainNames[i]]
BatchLists == {BatchList(n) : n \in 0..MaxBatch}
\* domains used with subscribe / unsubscribe / domain_update
SubDomains == {"a.com", "b.com"}
\* caller-supplied subscription callbacks; NoCallback is Python's None
Callbacks == {"cb1", "cb2"}
NoCallback == "none"
GlobalCallback == "global"

(* ----------------------------- envelopes ----------------------------- *)

\* a message id is the pair (time component, counter); NoId is the missing
\* or empty id of an envelope
NoId == <<>>

\* has_data: whether the message has a "data" key at all
Envelope(type, id, domain, error, data) ==
    [type |-> type, id |-> id, domain |-> domain, error |-> error, data |-> data,
     has_data |-> TRUE]
\* the same message without its "data" key
WithoutData(m) == [m EXCEPT !.data = <<>>, !.has_data = FALSE]
NoEnvelope == Envelope("none", NoId, "", "", <<>>)

\* an outbound envelope, as recorded at the transport
Outbound(type, id, domain) == [type |-> type, id |-> id, domain |-> domain]

(* ------------------------------- state ------------------------------- *)

VARIABLES
    connected,               \* self.connected
    ws,                      \* self.ws: index of the current transport, 0 = None
    wsState,                 \* per transport: unused / open / closing / closed_ok / closed_err / broken / broken_closed
    rcv,                     \* per transport: its _message_receiver task: none / running / ended
    hb,                      \* per connect: its _heartbeat task: none / created / sleeping / done / cancelled
    heartbeat_task,          \* self._heartbeat_task: index of the task it refers to, 0 = None
    stop_event,              \* self._stop_event.is_set()
    ctl,                     \* the controller task: where it is inside connect() / disconnect()
    notified,                \* which observers (on_connected, on_disconnected, on_error) have been called
    message_handlers,        \* self._message_handlers: id -> future (owner task, generation)
    message_counter,         \* self._message_counter
    clock,                   \* the last reading of time.time(), in milliseconds
    subscriptions,           \* self._subscriptions: domain -> list of callbacks
    global_update_callback,  \* self._global_update_callback (NoCallback when not set)
    call,                    \* per caller task: its operation, locals, future and outcome
    peer,                    \* per caller: how far the peer has answered its batch request
    sent,                    \* the envelopes handed to a transport
    lastUpdate,              \* the last _handle_domain_update call: the id of its envelope, its inputs, the callbacks invoked
    dropped,                 \* the messages the receive loop logged and dropped: how many, why the last,
                             \* and how many updates had been dispatched by then
    ping                     \* per heartbeat task: the ping whose ws.send it is suspended in: the
                             \* transport self.ws was when the send began, and the id (NoPing when none)

connVars == <<connected, ws, wsState, rcv, hb, heartbeat_task, stop_event, ctl, notified>>
tableVars == <<message_handlers, message_counter, clock, subscriptions, global_update_callback>>
vars == <<connected, ws, wsState, rcv, hb, heartbeat_task, stop_event, ctl, notified,
          message_handlers, message_counter, clock, subscriptions, global_update_callback,
          call, peer, sent, lastUpdate, dropped, ping>>

\* no ping is being sent
NoPing == [via |-> 0, id |-> NoId]

IdleCall ==
    [pc |-> "idle", kind |-> "none", domain |-> "", domains |-> <<>>,
     callback |-> NoCallback, id |-> NoId, via |-> 0,
     gen |-> 0, fst |-> "none", fres |-> NoEnvelope,
     results |-> <<>>, resp |-> NoEnvelope, outcome |-> "none"]

Init ==
    /\ connected = FALSE
    /\ ws = 0
    /\ wsState = [t \in Transports |-> "unused"]
    /\ rcv = [t \in Transports |-> "none"]
    /\ hb = [t \in Transports |-> "none"]
    /\ heartbeat_task = 0
    /\ stop_event = FALSE
    /\ ctl = [pc |-> "idle", last |-> "none"]
    /\ notified = {}
    /\ message_handlers = << >>
    /\ message_counter = 0
    /\ clock = 0
    /\ subscriptions = [d \in SubDomains |-> <<>>]
    /\ global_update_callback = NoCallback
    /\ call = [c \in Callers |-> IdleCall]
    /\ peer = [c \in Callers |-> [served |-> 0, final |-> FALSE, chunks |-> 0]]
    /\ sent = {}
    /\ lastUpdate = [n |-> 0, id |-> NoId, domain |-> "", raising |-> {}, invoked |-> <<>>]
    /\ dropped = [n |-> 0, why |-> "", updates |-> 0]
    /\ ping = [t \in Transports |-> NoPing]

(* ------------------------- correlation table ------------------------- *)

\* a generator that forgets to increment the counter
GenerateMessageIdStuck(ms) ==
    [counter |-> message_counter, id |-> <<ms, message_counter>>]

\* _generate_message_id: increments the counter and formats the id from the
\* clock reading ms and the new counter value
GenerateMessageId(ms) ==
    [counter |-> message_counter + 1, id |-> <<ms, message_counter + 1>>]

\* self._message_handlers[message_id] = future
Register(table, id, owner, gen) ==
    (id :> [owner |-> owner, gen |-> gen]) @@ table

\* an operation without the pop of its `finally`
ReleaseNothing(table, id) == table

\* self._message_handlers.pop(message_id, None)
Release(table, id) ==
    [i \in (DOMAIN table) \ {id} |-> table[i]]

\* future.done() of the future a table entry refers to: a future a caller
\* has replaced was resolved before, its current one is done unless pending
FutureDone(h) ==
    \/ h.gen # call[h.owner].gen
    \/ call[h.owner].fst # "pending"

Range(s) == {s[i] : i \in 1..Len(s)}

(* ------------------------- request operations ------------------------ *)

\* the type of the request envelope each operation builds
RequestType(kind) ==
    CASE kind = "test" -> "test"
      [] kind = "batch" -> "batch_test"
      [] kind = "subscribe" -> "subscribe"
      [] kind = "unsubscribe" -> "unsubscribe"
      [] kind = "regions" -> "get_regions"

\* _parse_geo_test_result, reduced to the field the callers are told apart
\* by: the raw result object becomes the GeoTestResult of its domain
ParseGeoTestResult(raw) == raw.domain

RECURSIVE ParseAll(_)
ParseAll(data) ==
    IF data = <<>> THEN <<>>
    ELSE <<ParseGeoTestResult(Head(data))>> \o ParseAll(Tail(data))

\* the guard of every request operation: "if not self.connected"
NotConnected == ~connected

\* what `if not self.connected` does in each operation: raise RuntimeError,
\* except unsubscribe, which returns
NotConnectedOutcome(kind) ==
    IF kind = "unsubscribe" THEN "returned" ELSE "not_connected"

\* the operation ends before any id is generated
EndEarly(c, op, outcome) ==
    /\ call' = [call EXCEPT ![c] = [op EXCEPT !.pc = "done", !.outcome = outcome]]
    /\ UNCHANGED <<connVars, tableVars, peer, sent, lastUpdate, dropped, ping>>

\* a subscribe that does not add the callback before it sends
AddCallbackSkipped(subs, domain, callback) == subs

\* subscribe's "Add callback to subscriptions", done before the handler is set up
AddCallback(subs, domain, callback) ==
    IF callback # NoCallback
    THEN [subs EXCEPT ![domain] = Append(@, callback)]
    ELSE subs

\* generate the id, (for subscribe) add the callback, create the future and
\* store it under the id; the task then reaches `await self.ws.send(...)`,
\* which begins on the transport self.ws is at that moment
StartRequest(c, op, ms) ==
    LET g == GenerateMessageId(ms) IN
    /\ message_counter < MaxIds
    /\ ms >= clock
    /\ clock' = ms
    /\ message_counter' = g.counter
    /\ subscriptions' = IF op.kind = "subscribe"
                        THEN AddCallback(subscriptions, op.domain, op.callback)
                        ELSE subscriptions
    /\ message_handlers' = Register(message_handlers, g.id, c, 1)
    /\ call' = [call EXCEPT ![c] =
                   [op EXCEPT !.pc = "send", !.id = g.id, !.via = ws,
                              !.gen = 1, !.fst = "pending"]]
    /\ UNCHANGED <<connVars, global_update_callback, peer, sent, lastUpdate, dropped, ping>>

\* a batch_test without the check for an empty domain list
BeginNoEmptyCheck(c, op, ms) ==
    /\ call[c].pc = "idle"
    /\ IF NotConnected
       THEN EndEarly(c, op, NotConnectedOutcome(op.kind))
       ELSE StartRequest(c, op, ms)

\* a request operation from its call to its first await
Begin(c, op, ms) ==
    /\ call[c].pc = "idle"
    /\ IF NotConnected
       THEN EndEarly(c, op, NotConnectedOutcome(op.kind))
       ELSE IF op.kind = "batch" /\ op.domains = <<>>
       THEN EndEarly(c, op, "returned")
       ELSE StartRequest(c, op, ms)

TestDomainCall(c, d, ms) ==
    Begin(c, [IdleCall EXCEPT !.kind = "test", !.domain = d], ms)

BatchTestCall(c, ds, ms) ==
    Begin(c, [IdleCall EXCEPT !.kind = "batch", !.domains = ds], ms)

SubscribeCall(c, d, cb, ms) ==
    Begin(c, [IdleCall EXCEPT !.kind = "subscribe", !.domain = d, !.callback = cb], ms)

UnsubscribeCall(c, d, ms) ==
    Begin(c, [IdleCall EXCEPT !.kind = "unsubscribe", !.domain = d], ms)

GetRegionsCall(c, ms) ==
    Begin(c, [IdleCall EXCEPT !.kind = "regions"], ms)

\* the operation ends: its `finally` releases the id
Finish(c, outcome, results, resp) ==
    /\ call' = [call EXCEPT ![c].pc = "done", ![c].outcome = outcome,
                            ![c].results = results, ![c].resp = resp]
    /\ message_handlers' = Release(message_handlers, call[c].id)

\* send of transport t succeeds while t is open and raises otherwise
CanSend(t) == t # 0 /\ wsState[t] = "open"

\* `await self.ws.send(json.dumps(request))` of a request operation
\* completes, on the transport it began on
SendRequest(c) ==
    /\ call[c].pc = "send"
    /\ CanSend(call[c].via)
    /\ sent' = sent \cup {Outbound(RequestType(call[c].kind), call[c].id, call[c].domain)}
    /\ call' = [call EXCEPT ![c].pc = "wait"]
    /\ UNCHANGED <<connVars, tableVars, peer, lastUpdate, dropped, ping>>

\* the send raises: no operation catches it, the `finally` runs
SendRequestFails(c) ==
    /\ call[c].pc = "send"
    /\ ~CanSend(call[c].via)
    /\ Finish(c, "send_failed", <<>>, NoEnvelope)
    /\ UNCHANGED <<connVars, message_counter, clock, subscriptions, global_update_callback,
                   peer, sent, lastUpdate, dropped, ping>>

\* the caller is resumed with the result of its future
Resumable(c, kind) ==
    /\ call[c].kind = kind
    /\ call[c].pc = "wait"
    /\ call[c].fst = "done"

\* response["data"] raises KeyError when the key is missing; no operation
\* catches it
MissingData(r) == ~r.has_data

\* what _parse_geo_test_result raises for data that holds no result: an
\* empty list or null has no `get` (AttributeError), an empty object has no
\* "domain" key (KeyError); the empty data of the model stands for all three
NoResultOutcomes == {"raised_AttributeError", "key_error"}

TestDomainResume(c) ==
    LET r == call[c].fres IN
    /\ Resumable(c, "test")
    /\ IF r.error # ""
       THEN Finish(c, "remote_error", <<>>, r)
       ELSE IF MissingData(r)
       THEN Finish(c, "key_error", <<>>, r)
       ELSE IF r.data = <<>>
       THEN \E o \in NoResultOutcomes : Finish(c, o, <<>>, r)
       ELSE Finish(c, "returned", ParseAll(r.data), r)
    /\ UNCHANGED <<connVars, message_counter, clock, subscriptions, global_update_callback,
                   peer, sent, lastUpdate, dropped, ping>>

GetRegionsResume(c) ==
    LET r == call[c].fres IN
    /\ Resumable(c, "regions")
    /\ IF MissingData(r)
       THEN Finish(c, "key_error", <<>>, r)
       ELSE Finish(c, "returned", r.data, r)
    /\ UNCHANGED <<connVars, message_counter, clock, subscriptions, global_update_callback,
                   peer, sent, lastUpdate, dropped, ping>>

SubscribeResume(c) ==
    LET r == call[c].fres IN
    /\ Resumable(c, "subscribe")
    /\ Finish(c, IF r.error # "" THEN "remote_error" ELSE "returned", <<>>, r)
    /\ UNCHANGED <<connVars, message_counter, clock, subscriptions, global_update_callback,
                   peer, sent, lastUpdate, dropped, ping>>

\* self._subscriptions.pop(domain, None)
RemoveAll(subs, domain) == [subs EXCEPT ![domain] = <<>>]

UnsubscribeResume(c) ==
    LET r == call[c].fres IN
    /\ Resumable(c, "unsubscribe")
    /\ subscriptions' = RemoveAll(subscriptions, call[c].domain)
    /\ Finish(c, "returned", <<>>, r)
    /\ UNCHANGED <<connVars, message_counter, clock, global_update_callback,
                   peer, sent, lastUpdate, dropped, ping>>

\* the loop of batch_test stops on an error-bearing response and on a
\* batch_result; after a batch_partial it goes on while results are missing
BatchBreaks(r) == r.error # "" \/ r.type = "batch_result"

\* the comparison off by one
BatchGoesOnInclusive(got, n) == Len(got) <= n

\* "if len(results) < len(domains)", which is also the loop's condition
BatchGoesOn(got, n) == Len(got) < n

\* one round of batch_test's loop, from the resolved wait_for to the next
\* suspension or the return
BatchTestResume(c) ==
    LET r == call[c].fres
        n == Len(call[c].domains)
        got == IF r.error = "" /\ r.type \in {"batch_result", "batch_partial"}
               THEN call[c].results \o ParseAll(r.data)
               ELSE call[c].results
    IN
    /\ Resumable(c, "batch")
    /\ IF r.error = "" /\ r.type \in {"batch_result", "batch_partial"} /\ MissingData(r)
       THEN Finish(c, "key_error", call[c].results, r)
       ELSE IF BatchBreaks(r) \/ ~BatchGoesOn(got, n)
       THEN Finish(c, "returned", got, r)
       ELSE IF r.type = "batch_partial"
       THEN \* "Reset future for next partial result", then wait again
            /\ call' = [call EXCEPT ![c].results = got, ![c].resp = r,
                                    ![c].gen = @ + 1, ![c].fst = "pending",
                                    ![c].fres = NoEnvelope]
            /\ message_handlers' =
                   Register(message_handlers, call[c].id, c, call[c].gen + 1)
       ELSE \* neither branch: the loop waits again on the same resolved
            \* future, which returns the same response at once, for ever
            /\ call' = [call EXCEPT ![c].pc = "spin", ![c].resp = r]
            /\ UNCHANGED message_handlers
    /\ UNCHANGED <<connVars, message_counter, clock, subscriptions, global_update_callback,
                   peer, sent, lastUpdate, dropped, ping>>

\* asyncio.wait_for expires: the future is cancelled, the caller is resumed later
Timeout(c) ==
    /\ call[c].pc = "wait"
    /\ call[c].fst = "pending"
    /\ call' = [call EXCEPT ![c].pc = "timeout", ![c].fst = "cancelled"]
    /\ UNCHANGED <<connVars, tableVars, peer, sent, lastUpdate, dropped, ping>>

\* every operation swallowing the expired wait, as unsubscribe does
TimeoutOutcomeSwallowed(kind) == "returned"

\* what each operation does with the expired wait: unsubscribe logs a warning
\* and returns, the others end with a timeout error
TimeoutOutcome(kind) ==
    IF kind = "unsubscribe" THEN "returned" ELSE "timeout"

TimeoutFinish(c) ==
    /\ call[c].pc = "timeout"
    /\ Finish(c, TimeoutOutcome(call[c].kind), call[c].results, call[c].resp)
    /\ UNCHANGED <<connVars, message_counter, clock, subscriptions, global_update_callback,
                   peer, sent, lastUpdate, dropped, ping>>

\* on_domain_update(callback)
OnDomainUpdate ==
    /\ global_update_callback = NoCallback
    /\ global_update_callback' = GlobalCallback
    /\ UNCHANGED <<connVars, message_handlers, message_counter, clock, subscriptions,
                   call, peer, sent, lastUpdate, dropped, ping>>

(* ---------------------------- receive loop --------------------------- *)

\* a dispatch loop without the try/except around each callback: the first
\* callback that raises ends it
RECURSIVE CallListenersAbort(_, _)
CallListenersAbort(callbacks, raising) ==
    IF callbacks = <<>> THEN <<>>
    ELSE IF Head(callbacks) \in raising
         THEN <<Head(callbacks)>>
         ELSE <<Head(callbacks)>> \o CallListenersAbort(Tail(callbacks), raising)

\* the loop of _handle_domain_update over the callbacks of the domain: each
\* is called inside its own try/except, so the loop goes on after a raise
RECURSIVE CallListeners(_, _)
CallListeners(callbacks, raising) ==
    IF callbacks = <<>> THEN <<>>
    ELSE IF Head(callbacks) \in raising
         THEN <<Head(callbacks)>> \o CallListeners(Tail(callbacks), raising)
         ELSE <<Head(callbacks)>> \o CallListeners(Tail(callbacks), raising)

\* _handle_domain_update: the callbacks it invokes, in order; `raising` are
\* the callbacks that raise when called
HandleDomainUpdate(domain, raising) ==
    LET listeners == IF domain \in DOMAIN subscriptions
                     THEN subscriptions[domain] ELSE <<>>
        global == IF global_update_callback # NoCallback
                  THEN <<global_update_callback>> ELSE <<>>
    IN CallListeners(listeners, raising) \o global

\* a routing that hands a correlated envelope to whichever caller is waiting
ResolvesAnyPending(m) ==
    IF \E c \in Callers : call[c].fst = "pending"
    THEN CHOOSE c \in Callers : call[c].fst = "pending"
    ELSE 0

\* the future _handle_message resolves for an envelope, as the caller that
\* owns it: 0 when the envelope is not delivered to any future
Resolves(m) ==
    IF m.id # NoId /\ m.id \in DOMAIN message_handlers
    THEN IF FutureDone(message_handlers[m.id])
         THEN 0
         ELSE message_handlers[m.id].owner
    ELSE 0

\* a routing that looks at the type first: a domain_update is never taken
\* for a response
CorrelatedUnlessUpdate(m) ==
    m.type # "domain_update" /\ m.id # NoId /\ m.id \in DOMAIN message_handlers

\* whether _handle_message treats the envelope as a response (its id is in
\* the table), and so does not look at its type
Correlated(m) == m.id # NoId /\ m.id \in DOMAIN message_handlers

\* _handle_message
HandleMessage(m, raising) ==
    IF Correlated(m)
    THEN /\ call' = IF Resolves(m) # 0
                    THEN [call EXCEPT ![Resolves(m)].fst = "done",
                                      ![Resolves(m)].fres = m]
                    ELSE call
         /\ UNCHANGED lastUpdate
    ELSE IF m.type = "domain_update"
    THEN /\ lastUpdate' = [n |-> lastUpdate.n + 1, id |-> m.id, domain |-> m.domain,
                           raising |-> raising,
                           invoked |-> HandleDomainUpdate(m.domain, raising)]
         /\ UNCHANGED call
    ELSE \* welcome, error and unhandled types are logged
         UNCHANGED <<call, lastUpdate>>

\* _message_receiver of transport t reads one envelope and handles it
Receive(t, m, raising) ==
    /\ rcv[t] = "running"
    /\ wsState[t] \in {"open", "closing"}
    /\ HandleMessage(m, raising)
    /\ UNCHANGED <<connVars, tableVars, sent, dropped, ping>>

\* a receive loop without the try/except inside the loop: the exception
\* of a malformed message reaches the outer handler and ends the loop
ReceiveMalformedFatal(t, why) ==
    /\ rcv[t] = "running"
    /\ wsState[t] \in {"open", "closing"}
    /\ dropped.n < MaxDropped
    /\ dropped' = [n |-> dropped.n + 1, why |-> why, updates |-> lastUpdate.n]
    /\ rcv' = [rcv EXCEPT ![t] = "ended"]
    /\ connected' = FALSE
    /\ notified' = notified \cup {"error"}
    /\ UNCHANGED <<ws, wsState, hb, heartbeat_task, stop_event, ctl,
                   tableVars, call, peer, sent, lastUpdate, ping>>

\* _message_receiver of transport t reads a message that json.loads rejects
\* ("undecodable") or whose handling raises ("unhandled": it is no object, or
\* a key of it is unhashable): the exception is logged, the loop goes on
ReceiveMalformed(t, why) ==
    /\ rcv[t] = "running"
    /\ wsState[t] \in {"open", "closing"}
    /\ dropped.n < MaxDropped
    /\ dropped' = [n |-> dropped.n + 1, why |-> why, updates |-> lastUpdate.n]
    /\ UNCHANGED <<connVars, tableVars, call, peer, sent, lastUpdate, ping>>

\* the `async for` of _message_receiver ends: the iteration finishes on a
\* normal close, ConnectionClosed is raised on an abnormal one, and any other
\* exception of the transport reaches the last handler
ReceiverEnds(t) ==
    /\ rcv[t] = "running"
    /\ wsState[t] \in {"closed_ok", "closed_err", "broken", "broken_closed"}
    /\ rcv' = [rcv EXCEPT ![t] = "ended"]
    /\ connected' = IF wsState[t] = "closed_ok" THEN connected ELSE FALSE
    /\ notified' = IF wsState[t] \in {"broken", "broken_closed"}
                   THEN notified \cup {"error"} ELSE notified
    /\ UNCHANGED <<ws, wsState, hb, heartbeat_task, stop_event, ctl,
                   tableVars, call, peer, sent, lastUpdate, dropped, ping>>

(* ------------------------------- peer -------------------------------- *)

\* the peer has been handed the request of caller c
RequestSent(c) ==
    /\ call[c].id # NoId
    /\ Outbound(RequestType(call[c].kind), call[c].id, call[c].domain) \in sent

RawResult(d) == [domain |-> d]

ReplyType(kind) ==
    CASE kind = "test" -> "test_result"
      [] kind = "subscribe" -> "subscribed"
      [] kind = "unsubscribe" -> "unsubscribed"
      [] kind = "regions" -> "regions"

ReplyData(c) ==
    CASE call[c].kind = "test" -> <<RawResult(call[c].domain)>>
      [] call[c].kind = "regions" -> <<"us-west", "us-east">>
      [] OTHER -> <<>>

\* the answer to a single-response request
PeerReply(t, c) ==
    /\ RequestSent(c)
    /\ call[c].kind # "batch"
    /\ Receive(t, Envelope(ReplyType(call[c].kind), call[c].id, call[c].domain,
                           "", ReplyData(c)), {})
    /\ UNCHANGED peer

\* an answer that carries a non-empty error field
PeerError(t, c) ==
    /\ RequestSent(c)
    /\ Receive(t, Envelope("error", call[c].id, "", "failed", <<>>), {})
    /\ UNCHANGED peer

\* an answer that carries a non-empty error field and no "data" key
PeerErrorBare(t, c) ==
    /\ RequestSent(c)
    /\ Receive(t, WithoutData(Envelope("error", call[c].id, "", "failed", <<>>)), {})
    /\ UNCHANGED peer

\* the next k results of a batch request, as a batch_partial or, with all
\* that remain, as the batch_result that ends the stream
PeerBatch(t, c, k, final) ==
    LET n == Len(call[c].domains)
        from == peer[c].served
        data == [i \in 1..k |-> RawResult(call[c].domains[from + i])]
    IN
    /\ RequestSent(c)
    /\ call[c].kind = "batch"
    /\ ~peer[c].final
    /\ peer[c].chunks < MaxChunks
    /\ k \in 0..(n - from)
    /\ final => k = n - from
    /\ Receive(t, Envelope(IF final THEN "batch_result" ELSE "batch_partial",
                           call[c].id, "", "", data), {})
    /\ peer' = [peer EXCEPT ![c] = [served |-> from + k, final |-> final,
                                  chunks |-> peer[c].chunks + 1]]

\* an envelope under the id of a request whose type is no answer's
PeerOdd(t, c, type) ==
    /\ RequestSent(c)
    /\ Receive(t, Envelope(type, call[c].id, "", "", <<>>), {})
    /\ UNCHANGED peer

\* the ids the peer has seen
SeenIds == {o.id : o \in sent} \ {NoId}

\* a domain_update push; a peer that follows the protocol sends it without id
PeerPush(t, d, id, raising) ==
    /\ lastUpdate.n < MaxUpdates
    /\ raising \subseteq (Range(subscriptions[d]) \cup {global_update_callback})
                            \ {NoCallback}
    /\ Receive(t, Envelope("domain_update", id, d, "", <<>>), raising)
    /\ UNCHANGED peer

\* the peer ends the connection: with a normal close, abnormally, or the
\* transport fails in some other way
PeerCloses(t, how) ==
    /\ wsState[t] = "open"
    /\ wsState' = [wsState EXCEPT ![t] = how]
    /\ UNCHANGED <<connected, ws, rcv, hb, heartbeat_task, stop_event, ctl, notified,
                   tableVars, call, peer, sent, lastUpdate, dropped, ping>>

(* ----------------------- connect and disconnect ---------------------- *)

Opened == {t \in Transports : wsState[t] # "unused"}

\* connect() is called and awaits websockets.connect
ConnectCall ==
    /\ ctl.pc = "idle"
    /\ Cardinality(Opened) < MaxConnects
    /\ ctl' = [ctl EXCEPT !.pc = "connecting"]
    /\ UNCHANGED <<connected, ws, wsState, rcv, hb, heartbeat_task, stop_event,
                   notified, tableVars, call, peer, sent, lastUpdate, dropped, ping>>

\* the `except Exception` of connect()
ConnectFailure ==
    /\ connected' = FALSE
    /\ notified' = notified \cup {"error"}
    /\ ctl' = [pc |-> "idle", last |-> "connect_failed"]

\* websockets.connect raises
ConnectRefused ==
    /\ ctl.pc = "connecting"
    /\ ConnectFailure
    /\ UNCHANGED <<ws, wsState, rcv, hb, heartbeat_task, stop_event,
                   tableVars, call, peer, sent, lastUpdate, dropped, ping>>

\* websockets.connect returns the transport: self.ws and self.connected are
\* set, the receiver task is created, _send_config is awaited
ConnectOpened ==
    LET t == Cardinality(Opened) + 1 IN
    /\ ctl.pc = "connecting"
    /\ ws' = t
    /\ wsState' = [wsState EXCEPT ![t] = "open"]
    /\ connected' = TRUE
    /\ rcv' = [rcv EXCEPT ![t] = "running"]
    /\ ctl' = [ctl EXCEPT !.pc = "send_config"]
    /\ UNCHANGED <<hb, heartbeat_task, stop_event, notified,
                   tableVars, call, peer, sent, lastUpdate, dropped, ping>>

\* _send_config succeeds: the heartbeat task is created, on_connected is
\* called, connect() returns True
SendConfig ==
    /\ ctl.pc = "send_config"
    /\ CanSend(ws)
    /\ sent' = sent \cup {Outbound("set_config", NoId, "")}
    /\ hb' = [hb EXCEPT ![ws] = "created"]
    /\ heartbeat_task' = ws
    /\ notified' = notified \cup {"connected"}
    /\ ctl' = [pc |-> "idle", last |-> "connect_ok"]
    /\ UNCHANGED <<connected, ws, wsState, rcv, stop_event,
                   tableVars, call, peer, lastUpdate, dropped, ping>>

\* _send_config raises
SendConfigFails ==
    /\ ctl.pc = "send_config"
    /\ ~CanSend(ws)
    /\ ConnectFailure
    /\ UNCHANGED <<ws, wsState, rcv, hb, heartbeat_task, stop_event,
                   tableVars, call, peer, sent, lastUpdate, dropped, ping>>

\* websockets.connect returns the transport and _send_config raises while
\* it builds the request, before its await (test_mode is not a TestMode,
\* regions cannot be serialized): self.ws is set, the receiver task is
\* created and the `except Exception` of connect() runs, all in one step
SendConfigRaises ==
    LET t == Cardinality(Opened) + 1 IN
    /\ ctl.pc = "connecting"
    /\ ws' = t
    /\ wsState' = [wsState EXCEPT ![t] = "open"]
    /\ rcv' = [rcv EXCEPT ![t] = "running"]
    /\ ConnectFailure
    /\ UNCHANGED <<hb, heartbeat_task, stop_event,
                   tableVars, call, peer, sent, lastUpdate, dropped, ping>>

\* ws.closed
WsClosed(t) == wsState[t] \in {"closed_ok", "closed_err", "broken_closed"}

\* self._heartbeat_task.cancel(): a task that has not finished is cancelled
CancelTask(tasks, i) ==
    IF i # 0 /\ tasks[i] \in {"created", "sleeping", "in_send"}
    THEN [tasks EXCEPT ![i] = "cancelled"]
    ELSE tasks

\* disconnect() up to `await self.ws.close()`, or to its end when there is
\* no transport to close
DisconnectCall ==
    /\ ctl.pc = "idle"
    /\ connected' = FALSE
    /\ stop_event' = TRUE
    /\ hb' = CancelTask(hb, heartbeat_task)
    /\ IF ws # 0 /\ ~WsClosed(ws)
       THEN \* a transport that has failed stays failed while it is being closed
            /\ wsState' = [wsState EXCEPT ![ws] = IF @ = "broken" THEN @ ELSE "closing"]
            /\ ctl' = [ctl EXCEPT !.pc = "closing"]
            /\ UNCHANGED notified
       ELSE /\ notified' = notified \cup {"disconnected"}
            /\ ctl' = [pc |-> "idle", last |-> "disconnected"]
            /\ UNCHANGED wsState
    /\ ping' = IF hb' # hb THEN [ping EXCEPT ![heartbeat_task] = NoPing] ELSE ping
    /\ UNCHANGED <<ws, rcv, heartbeat_task, tableVars, call, peer, sent, lastUpdate, dropped>>

\* ws.close() returns: on_disconnected is called, disconnect() returns
DisconnectClosed ==
    /\ ctl.pc = "closing"
    /\ wsState' = [wsState EXCEPT ![ws] = IF @ = "broken" THEN "broken_closed"
                                            ELSE "closed_ok"]
    /\ notified' = notified \cup {"disconnected"}
    /\ ctl' = [pc |-> "idle", last |-> "disconnected"]
    /\ UNCHANGED <<connected, ws, rcv, hb, heartbeat_task, stop_event,
                   tableVars, call, peer, sent, lastUpdate, dropped, ping>>

(* ----------------------------- heartbeat ----------------------------- *)

\* the condition of _heartbeat's loop
HeartbeatGoesOn == connected /\ ~stop_event

\* the task starts and reaches asyncio.sleep, or its loop ends at once
HeartbeatStart(t) ==
    /\ hb[t] = "created"
    /\ hb' = [hb EXCEPT ![t] = IF HeartbeatGoesOn THEN "sleeping" ELSE "done"]
    /\ UNCHANGED <<connected, ws, wsState, rcv, heartbeat_task, stop_event, ctl,
                   notified, tableVars, call, peer, sent, lastUpdate, dropped, ping>>

\* the sleep is over while connected: the ping is built with a new id and
\* `await self.ws.send(...)` begins on the transport self.ws is at that moment
HeartbeatWake(t, ms) ==
    LET g == GenerateMessageId(ms) IN
    /\ hb[t] = "sleeping"
    /\ connected
    /\ message_counter < MaxIds
    /\ ms >= clock
    /\ clock' = ms
    /\ message_counter' = g.counter
    /\ hb' = [hb EXCEPT ![t] = "in_send"]
    /\ ping' = [ping EXCEPT ![t] = [via |-> ws, id |-> g.id]]
    /\ UNCHANGED <<connected, ws, wsState, rcv, heartbeat_task, stop_event, ctl,
                   notified, message_handlers, subscriptions, global_update_callback,
                   call, peer, sent, lastUpdate, dropped>>

\* the send of the ping completes: the loop condition is tested again
HeartbeatPing(t) ==
    /\ hb[t] = "in_send"
    /\ CanSend(ping[t].via)
    /\ sent' = sent \cup {Outbound("ping", ping[t].id, "")}
    /\ hb' = [hb EXCEPT ![t] = IF HeartbeatGoesOn THEN "sleeping" ELSE "done"]
    /\ ping' = [ping EXCEPT ![t] = NoPing]
    /\ UNCHANGED <<connected, ws, wsState, rcv, heartbeat_task, stop_event, ctl,
                   notified, tableVars, call, peer, lastUpdate, dropped>>

\* the send of the ping raises: the loop breaks
HeartbeatPingFails(t) ==
    /\ hb[t] = "in_send"
    /\ ~CanSend(ping[t].via)
    /\ hb' = [hb EXCEPT ![t] = "done"]
    /\ ping' = [ping EXCEPT ![t] = NoPing]
    /\ UNCHANGED <<connected, ws, wsState, rcv, heartbeat_task, stop_event, ctl,
                   notified, tableVars, call, peer, sent, lastUpdate, dropped>>

\* the sleep is over while not connected: no ping, the loop ends
HeartbeatExit(t) ==
    /\ hb[t] = "sleeping"
    /\ ~connected
    /\ hb' = [hb EXCEPT ![t] = "done"]
    /\ UNCHANGED <<connected, ws, wsState, rcv, heartbeat_task, stop_event, ctl,
                   notified, tableVars, call, peer, sent, lastUpdate, dropped, ping>>

(* --------------------------- specification --------------------------- *)

OddTypes == {"welcome", "unknown"}
CloseKinds == {"closed_ok", "closed_err", "broken"}

\* the application connects once
ConnectOnce == Opened = {} /\ ConnectCall

\* all requests are made within one millisecond: their ids differ by the
\* counter alone
SameMs == {0}

\* a session that is opened once; test_domain callers; a peer that answers,
\* answers with an error, or answers with an envelope of another type
NextRequests ==
    \/ ConnectOnce
    \/ ConnectOpened
    \/ SendConfig
    \/ \E t \in Transports : HeartbeatStart(t)
    \/ \E t \in Transports, ms \in Clock : HeartbeatWake(t, ms)
    \/ \E t \in Transports : HeartbeatPing(t)
    \/ \E c \in Callers, ms \in Clock : TestDomainCall(c, "a.com", ms)
    \/ \E c \in Callers : SendRequest(c)
    \/ \E c \in Callers : TestDomainResume(c)
    \/ \E c \in Callers : Timeout(c)
    \/ \E c \in Callers : TimeoutFinish(c)
    \/ \E t \in Transports, c \in Callers : PeerReply(t, c)
    \/ \E t \in Transports, c \in Callers : PeerError(t, c)
    \/ \E t \in Transports, c \in Callers, type \in OddTypes : PeerOdd(t, c, type)

SpecRequests == Init /\ [][NextRequests]_vars

\* the caller tasks that run batch_test in the batch scenarios
BatchCallers == {1}
\* the caller tasks that run test_domain beside it
TestCallers == {2}
\* the caller tasks that run subscribe in the subscription scenario
Subscribers == Callers \ {NumCallers}
\* the callback each subscriber passes
CallbackOf(c) == IF c = 1 THEN "cb1" ELSE "cb2"

\* a session that is opened once; one batch_test caller and one test_domain
\* caller; a peer
\* that follows the protocol: batch_partial envelopes, then one batch_result
NextBatch ==
    \/ ConnectOnce
    \/ ConnectOpened
    \/ SendConfig
    \/ \E c \in BatchCallers, ds \in BatchLists, ms \in SameMs : BatchTestCall(c, ds, ms)
    \/ \E c \in TestCallers, ms \in SameMs : TestDomainCall(c, "a.com", ms)
    \/ \E c \in Callers : SendRequest(c)
    \/ \E c \in Callers : BatchTestResume(c)
    \/ \E c \in Callers : TestDomainResume(c)
    \/ \E c \in Callers : Timeout(c)
    \/ \E c \in Callers : TimeoutFinish(c)
    \/ \E t \in Transports, c \in Callers : PeerReply(t, c)
    \/ \E t \in Transports, c \in Callers, k \in 0..MaxBatch, final \in BOOLEAN :
           PeerBatch(t, c, k, final)

SpecBatch == Init /\ [][NextBatch]_vars

\* the same with a peer that may also answer a request with an error or with
\* an envelope of another type
NextBatchAny ==
    \/ NextBatch
    \/ \E t \in Transports, c \in Callers : PeerError(t, c)
    \/ \E t \in Transports, c \in Callers, type \in OddTypes : PeerOdd(t, c, type)

SpecBatchAny == Init /\ [][NextBatchAny]_vars

\* a session that is opened once; all callers but the last subscribe, each
\* with its own callback or with none, the last unsubscribes; a peer that
\* acknowledges and pushes domain updates
NextSubs ==
    \/ ConnectOnce
    \/ ConnectOpened
    \/ SendConfig
    \/ OnDomainUpdate
    \/ \E c \in Subscribers : \E d \in SubDomains, cb \in {CallbackOf(c), NoCallback}, ms \in SameMs :
           SubscribeCall(c, d, cb, ms)
    \/ \E c \in Callers \ Subscribers, ms \in SameMs : UnsubscribeCall(c, "a.com", ms)
    \/ \E c \in Callers : SendRequest(c)
    \/ \E c \in Callers : SubscribeResume(c)
    \/ \E c \in Callers : UnsubscribeResume(c)
    \/ \E c \in Callers : Timeout(c)
    \/ \E c \in Callers : TimeoutFinish(c)
    \/ \E t \in Transports, c \in Callers : PeerReply(t, c)
    \/ \E t \in Transports, d \in SubDomains,
          raising \in SUBSET (Callbacks \cup {GlobalCallback}) :
           PeerPush(t, d, NoId, raising)

SpecSubs == Init /\ [][NextSubs]_vars

\* connect and disconnect in any order, the heartbeat and receiver tasks, a
\* peer that pushes updates and may end the connection; one kind of request
NextSession ==
    \/ ConnectCall
    \/ ConnectRefused
    \/ ConnectOpened
    \/ SendConfig
    \/ SendConfigFails
    \/ DisconnectCall
    \/ DisconnectClosed
    \/ \E t \in Transports : ReceiverEnds(t)
    \/ \E t \in Transports : HeartbeatStart(t)
    \/ \E t \in Transports, ms \in SameMs : HeartbeatWake(t, ms)
    \/ \E t \in Transports : HeartbeatPing(t)
    \/ \E t \in Transports : HeartbeatPingFails(t)
    \/ \E t \in Transports : HeartbeatExit(t)
    \/ \E t \in Transports, how \in CloseKinds : PeerCloses(t, how)
    \/ \E t \in Transports : PeerPush(t, "a.com", NoId, {})
    \/ \E c \in {1}, ms \in SameMs : TestDomainCall(c, "a.com", ms)
    \/ \E c \in Callers : SendRequest(c)
    \/ \E c \in Callers : SendRequestFails(c)
    \/ \E c \in Callers : TestDomainResume(c)
    \/ \E c \in Callers : Timeout(c)
    \/ \E c \in Callers : TimeoutFinish(c)
    \/ \E t \in Transports, c \in Callers : PeerReply(t, c)

SpecSession == Init /\ [][NextSession]_vars


(* ------------------------------ claims ------------------------------- *)

\* the request envelope of caller c has been handed out and it is a request
\* of the given kind
Started(c, kind) == call[c].kind = kind /\ call[c].id # NoId

\* C1: a test_domain caller is completed only with an envelope whose id is
\* the id of its own request: the result of its future, and the response it
\* has consumed, never carry another id.
C1_OwnResponseOnly ==
    \A c \in Callers :
        call[c].kind = "test" =>
            /\ call[c].fst = "done" => call[c].fres.id = call[c].id
            /\ call[c].resp # NoEnvelope => call[c].resp.id = call[c].id

\* C1 witness: a later request has returned with its response while an
\* earlier request, also sent, still waits (responses out of request order).
C1_Witness ==
    \E c1, c2 \in Callers :
        /\ Started(c1, "test") /\ Started(c2, "test")
        /\ call[c1].id[2] < call[c2].id[2]
        /\ call[c1].pc = "wait" /\ call[c1].fst = "pending" /\ RequestSent(c1)
        /\ call[c2].pc = "done" /\ call[c2].outcome = "returned"
        /\ call[c2].resp.id = call[c2].id

\* C2: a request operation called while connected = FALSE ends at once with
\* a not-connected error, hands no envelope to the transport and stores no
\* correlation entry.
C2_NotConnectedFails ==
    [][\A c \in Callers :
          (call[c].pc = "idle" /\ call'[c].pc # "idle" /\ ~connected) =>
              /\ call'[c].pc = "done"
              /\ call'[c].outcome = "not_connected"
              /\ sent' = sent
              /\ message_handlers' = message_handlers]_vars

\* C3: when the wait of unsubscribe(domain) for its acknowledgment ends, by
\* the acknowledgment or by the timeout, no listener is left for the domain.
C3_UnsubscribeRemovesAll ==
    [][\A c \in Callers :
          (/\ Started(c, "unsubscribe")
           /\ call[c].pc \in {"wait", "timeout"}
           /\ call'[c].pc = "done") =>
              subscriptions'[call[c].domain] = <<>>]_vars

\* C4: subscribe(domain, cb) has cb in the registry when its envelope is
\* handed to the transport, and every domain_update of the domain dispatched
\* from then on, also before the acknowledgment, invokes cb (as long as no
\* unsubscribe of the domain has removed its listeners).
C4_RegisteredBeforeSend ==
    [][\A c \in Callers :
          LET d == call[c].domain
              cb == call[c].callback
              subscribed == Started(c, "subscribe") /\ cb # NoCallback
              removed == \E u \in Callers :
                             /\ Started(u, "unsubscribe") /\ call[u].domain = d
                             /\ call[u].pc = "done" /\ call[u].fst = "done"
          IN
          (subscribed /\ ~removed) =>
              /\ (call[c].pc = "send" /\ call'[c].pc = "wait") =>
                     cb \in Range(subscriptions[d])
              /\ (lastUpdate'.n # lastUpdate.n /\ lastUpdate'.domain = d) =>
                     cb \in Range(lastUpdate'.invoked)]_vars

\* C4 witness: a subscribe still waits for its acknowledgment and a
\* domain_update of its domain has invoked its callback.
C4_Witness ==
    \E c \in Callers :
        /\ Started(c, "subscribe") /\ call[c].callback # NoCallback
        /\ call[c].pc = "wait" /\ call[c].fst = "pending"
        /\ lastUpdate.n > 0 /\ lastUpdate.domain = call[c].domain
        /\ call[c].callback \in Range(lastUpdate.invoked)

\* C5: when the peer has answered a batch_test of N domains with
\* batch_partial envelopes and the final batch_result, together the N
\* results, a caller that is still waiting has its handle resolved, and the
\* call returns exactly the N results in order.
C5_AllResultsInOrder ==
    \A c \in Callers :
        (Started(c, "batch") /\ peer[c].final) =>
            /\ call[c].pc = "wait" => call[c].fst = "done"
            /\ (call[c].pc = "done" /\ call[c].outcome = "returned") =>
                   call[c].results = call[c].domains

\* C6: a round of batch_test's loop ends the call, with a normal return,
\* exactly when the response is a batch_result, or carries an error, or
\* brings the number of results to the number of domains; after any other
\* batch_partial the call waits again on a fresh handle stored under its id.
C6_BatchLoop ==
    [][\A c \in Callers :
          LET r == call[c].fres
              n == Len(call[c].domains)
              count == Len(call[c].results) + Len(r.data)
              ends == \/ r.error # ""
                      \/ r.type = "batch_result"
                      \/ r.type = "batch_partial" /\ count >= n
          IN
          (/\ Started(c, "batch")
           /\ call[c].pc = "wait" /\ call[c].fst = "done"
           /\ call'[c] # call[c]) =>
              /\ ends <=> (call'[c].pc = "done" /\ call'[c].outcome = "returned")
              /\ (~ends /\ r.type = "batch_partial") =>
                     /\ call'[c].pc = "wait" /\ call'[c].fst = "pending"
                     /\ Len(call'[c].results) = count
                     /\ message_handlers'[call[c].id] =
                            [owner |-> c, gen |-> call'[c].gen]]_vars

\* C6 witness: a batch_test has returned all its results after two rounds
\* of batch_partial and a batch_result.
C6_Witness ==
    \E c \in Callers :
        /\ Started(c, "batch") /\ call[c].pc = "done"
        /\ call[c].outcome = "returned" /\ call[c].gen >= 3
        /\ call[c].resp.type = "batch_result"
        /\ call[c].results = call[c].domains

\* C7 as stated: batch_test with an empty list returns an empty list, with
\* no envelope sent and no correlation entry stored.
C7_EmptyBatchReturns ==
    [][\A c \in Callers :
          (/\ call[c].pc = "idle"
           /\ call'[c].kind = "batch" /\ call'[c].domains = <<>>) =>
              /\ call'[c].pc = "done" /\ call'[c].outcome = "returned"
              /\ call'[c].results = <<>>
              /\ sent' = sent
              /\ message_handlers' = message_handlers]_vars

\* C7 amended: batch_test with an empty list sends nothing, stores nothing
\* and generates no id; it returns an empty list on a connected session and
\* fails with the not-connected error otherwise.
C7_EmptyBatchOnConnected ==
    [][\A c \in Callers :
          (/\ call[c].pc = "idle"
           /\ call'[c].kind = "batch" /\ call'[c].domains = <<>>) =>
              /\ call'[c].pc = "done"
              /\ call'[c].outcome = IF connected THEN "returned" ELSE "not_connected"
              /\ call'[c].results = <<>>
              /\ sent' = sent
              /\ message_handlers' = message_handlers
              /\ message_counter' = message_counter]_vars

\* C7 witness: on a connected session a batch_test with an empty list has
\* returned, without an id.
C7_Witness ==
    \E c \in Callers :
        /\ connected
        /\ call[c].kind = "batch" /\ call[c].domains = <<>>
        /\ call[c].pc = "done" /\ call[c].outcome = "returned"
        /\ call[c].id = NoId

\* C8: a registration under an id that is already in the correlation table
\* does not replace the entry: an entry that stays in the table stays the same.
C8_NeverReplaced ==
    [][\A id \in DOMAIN message_handlers :
          id \in DOMAIN message_handlers' =>
              message_handlers'[id] = message_handlers[id]]_vars

\* C9: a dispatched domain_update invokes every listener of its domain once,
\* in insertion order, then the global listener if one is set, whichever of
\* them raise; the receive loop goes on.
C9_AllListenersInvoked ==
    [][lastUpdate'.n # lastUpdate.n =>
          LET d == lastUpdate'.domain
              global == IF global_update_callback # NoCallback
                        THEN <<global_update_callback>> ELSE <<>>
          IN /\ lastUpdate'.invoked = subscriptions[d] \o global
             /\ rcv' = rcv
             /\ connected' = connected]_vars

\* C9 witness: two listeners of the domain and the global listener were
\* invoked in order although the first listener raised.
C9_Witness ==
    /\ lastUpdate.n > 0
    /\ Len(lastUpdate.invoked) = 3
    /\ lastUpdate.invoked[1] \in lastUpdate.raising
    /\ lastUpdate.invoked[1] # lastUpdate.invoked[2]
    /\ lastUpdate.invoked[3] = GlobalCallback

\* C10: once disconnect has returned (and until connect is called again)
\* connected is FALSE, the transport is closed, no heartbeat sends a ping
\* and no receive loop hands an envelope to a caller or to a listener.
C10_DisconnectStopsAll ==
    [][(ctl.pc = "idle" /\ ctl.last = "disconnected") =>
          /\ ~connected
          /\ ws # 0 => WsClosed(ws)
          /\ {o \in sent' : o.type = "ping"} = {o \in sent : o.type = "ping"}
          /\ lastUpdate' = lastUpdate
          /\ \A c \in Callers : call'[c].fst = "done" => call[c].fst = "done"]_vars

\* C11: the heartbeat task created by a successful connect, when it first
\* runs on a session that is still connected, enters its ping loop (it
\* reaches the sleep that precedes a ping); this holds for a connect that
\* follows an earlier disconnect as well.
C11_HeartbeatOnEveryConnect ==
    [][\A t \in Transports :
          (/\ hb[t] = "created" /\ hb'[t] \in {"sleeping", "done"}
           /\ connected /\ t = heartbeat_task) =>
              hb'[t] = "sleeping"]_vars

\* the caller task that runs get_regions in the error scenario
RegionCallers == {NumCallers}

\* a session that is opened once; one batch_test caller, one caller of
\* test_domain or subscribe, one get_regions caller; a peer that answers
\* each request in time, with its result or with an error-bearing envelope,
\* which has a "data" key or not
NextErrors ==
    \/ ConnectOnce
    \/ ConnectOpened
    \/ SendConfig
    \/ \E c \in BatchCallers, ms \in SameMs : BatchTestCall(c, BatchList(2), ms)
    \/ \E c \in TestCallers, ms \in SameMs : TestDomainCall(c, "a.com", ms)
    \/ \E c \in TestCallers, ms \in SameMs : SubscribeCall(c, "a.com", CallbackOf(c), ms)
    \/ \E c \in RegionCallers, ms \in SameMs : GetRegionsCall(c, ms)
    \/ \E c \in Callers : SendRequest(c)
    \/ \E c \in Callers : TestDomainResume(c)
    \/ \E c \in Callers : BatchTestResume(c)
    \/ \E c \in Callers : SubscribeResume(c)
    \/ \E c \in Callers : GetRegionsResume(c)
    \/ \E t \in Transports, c \in Callers : PeerReply(t, c)
    \/ \E t \in Transports, c \in Callers : PeerError(t, c)
    \/ \E t \in Transports, c \in Callers : PeerErrorBare(t, c)
    \/ \E t \in Transports, c \in Callers, k \in 1..2, final \in BOOLEAN :
           PeerBatch(t, c, k, final)

SpecErrors == Init /\ [][NextErrors]_vars

\* C12: a test_domain, batch_test, subscribe or get_regions call whose
\* correlated response carried a non-empty error field does not end in a
\* normal return.
C12_ErrorSurfaces ==
    \A c \in Callers :
        (/\ call[c].kind \in {"test", "batch", "subscribe", "regions"}
         /\ call[c].pc = "done"
         /\ call[c].resp.error # "") =>
            call[c].outcome # "returned"

\* a session that is opened once and may lose its transport; two test_domain
\* callers and a batch_test caller; a peer that answers, answers with an
\* error, or does not answer
NextEnds ==
    \/ ConnectOnce
    \/ ConnectOpened
    \/ SendConfig
    \/ SendConfigFails
    \/ \E c \in Subscribers, ms \in SameMs : TestDomainCall(c, "a.com", ms)
    \/ \E c \in RegionCallers, ms \in SameMs : BatchTestCall(c, BatchList(2), ms)
    \/ \E c \in Callers : SendRequest(c)
    \/ \E c \in Callers : SendRequestFails(c)
    \/ \E c \in Callers : TestDomainResume(c)
    \/ \E c \in Callers : BatchTestResume(c)
    \/ \E c \in Callers : Timeout(c)
    \/ \E c \in Callers : TimeoutFinish(c)
    \/ \E t \in Transports, c \in Callers : PeerReply(t, c)
    \/ \E t \in Transports, c \in Callers : PeerError(t, c)
    \/ \E t \in Transports, c \in Callers, k \in 1..2, final \in BOOLEAN :
           PeerBatch(t, c, k, final)
    \/ \E t \in Transports : PeerCloses(t, "closed_err")
    \/ \E t \in Transports : ReceiverEnds(t)

SpecEnds == Init /\ [][NextEnds]_vars

\* the request operations that have stored their handle and not yet ended
InFlight == {c \in Callers : call[c].pc \in {"send", "wait", "timeout", "spin"}}

\* C13: the keys of the correlation table are exactly the ids of the request
\* operations in flight: an operation that has ended, in whichever way, has
\* left no entry.
C13_TableIsInFlight ==
    DOMAIN message_handlers = {call[c].id : c \in InFlight}

\* C13 witness: one operation has ended with a remote error, one with a send
\* failure or a timeout, and the table holds the id of the third alone, which
\* is in flight.
C13_Witness ==
    \E c1, c2, c3 \in Callers :
        /\ call[c1].pc = "done" /\ call[c1].outcome = "remote_error"
        /\ call[c2].pc = "done" /\ call[c2].outcome \in {"send_failed", "timeout"}
        /\ call[c3].pc = "wait"
        /\ DOMAIN message_handlers = {call[c3].id}

\* the transport of the session is closed or lost: nothing is received on it
TransportGone ==
    ws # 0 /\ wsState[ws] \in {"closed_ok", "closed_err", "broken", "broken_closed"}

\* a wait that expires after the transport is gone
LateTimeout(c) == TransportGone /\ Timeout(c)

\* the caller task that runs unsubscribe in the scenario below
Unsubscribers == Callers \ Subscribers

\* a session that is opened once and then ended by disconnect or by the loss
\* of its transport; a batch_test, a test_domain and an unsubscribe caller; a
\* peer that answers in time or not at all: a wait expires only after the
\* transport is gone
NextDrop ==
    \/ ConnectOnce
    \/ ConnectOpened
    \/ SendConfig
    \/ SendConfigFails
    \/ DisconnectCall
    \/ DisconnectClosed
    \/ \E t \in Transports : PeerCloses(t, "closed_err")
    \/ \E t \in Transports : ReceiverEnds(t)
    \/ \E c \in BatchCallers, ms \in SameMs : BatchTestCall(c, BatchList(2), ms)
    \/ \E c \in TestCallers, ms \in SameMs : TestDomainCall(c, "a.com", ms)
    \/ \E c \in Unsubscribers, ms \in SameMs : UnsubscribeCall(c, "a.com", ms)
    \/ \E c \in Callers : SendRequest(c)
    \/ \E c \in Callers : SendRequestFails(c)
    \/ \E c \in Callers : TestDomainResume(c)
    \/ \E c \in Callers : BatchTestResume(c)
    \/ \E c \in Callers : UnsubscribeResume(c)
    \/ \E c \in Callers : LateTimeout(c)
    \/ \E c \in Callers : TimeoutFinish(c)
    \/ \E t \in Transports, c \in Callers : PeerReply(t, c)
    \/ \E t \in Transports, c \in Callers, k \in 1..2, final \in BOOLEAN :
           PeerBatch(t, c, k, final)

\* the timer of asyncio.wait_for fires, and a task that can run is run
SpecDrop ==
    /\ Init
    /\ [][NextDrop]_vars
    /\ \A c \in Callers : WF_vars(LateTimeout(c))
    /\ \A c \in Callers : WF_vars(TimeoutFinish(c))

\* C14 as stated: a request whose wait expired after the session had ended
\* ends with a timeout failure.
C14_EndsWithTimeoutFailure ==
    \A c \in Callers :
        (call[c].pc = "done" /\ call[c].fst = "cancelled") =>
            call[c].outcome = "timeout"

\* C14 amended: the steps that end the session (disconnect, the loss of the
\* transport, the end of the receive loop) leave every pending handle
\* pending and the table as it is; a request that waits when the transport is
\* gone ends when its own timeout expires, test_domain and batch_test with a
\* timeout failure and unsubscribe with a normal return, and its entry is
\* then removed.
C14_PendingUntilTimeout ==
    /\ [][(connected' # connected \/ wsState' # wsState \/ rcv' # rcv) =>
             /\ message_handlers' = message_handlers
             /\ \A c \in Callers : call'[c] = call[c]]_vars
    /\ \A c \in Callers :
           (call[c].pc = "wait" /\ call[c].fst = "pending" /\ TransportGone)
               ~> (/\ call[c].pc = "done"
                   /\ call[c].fst = "cancelled"
                   /\ call[c].outcome = IF call[c].kind = "unsubscribe"
                                        THEN "returned" ELSE "timeout"
                   /\ call[c].id \notin DOMAIN message_handlers)

\* C14 witness: disconnect has returned while a test_domain request was
\* waiting with its handle pending and its entry in the table.
C14_Witness ==
    \E c \in Callers :
        /\ ctl.pc = "idle" /\ ctl.last = "disconnected" /\ TransportGone
        /\ Started(c, "test") /\ call[c].pc = "wait" /\ call[c].fst = "pending"
        /\ call[c].id \in DOMAIN message_handlers

\* why the handling of a malformed message fails
MalformedKinds == {"undecodable", "unhandled"}

\* a session that is opened once; a subscriber and a test_domain caller; a
\* peer that answers, pushes updates, and sends malformed messages
NextGarbage ==
    \/ ConnectOnce
    \/ ConnectOpened
    \/ SendConfig
    \/ SendConfigFails
    \/ \E c \in BatchCallers, ms \in SameMs : SubscribeCall(c, "a.com", CallbackOf(c), ms)
    \/ \E c \in TestCallers, ms \in SameMs : TestDomainCall(c, "a.com", ms)
    \/ \E c \in Callers : SendRequest(c)
    \/ \E c \in Callers : SendRequestFails(c)
    \/ \E c \in Callers : SubscribeResume(c)
    \/ \E c \in Callers : TestDomainResume(c)
    \/ \E c \in Callers : Timeout(c)
    \/ \E c \in Callers : TimeoutFinish(c)
    \/ \E t \in Transports, c \in Callers : PeerReply(t, c)
    \/ \E t \in Transports : PeerPush(t, "a.com", NoId, {})
    \/ \E t \in Transports, why \in MalformedKinds : ReceiveMalformed(t, why)
    \/ \E t \in Transports : PeerCloses(t, "closed_err")
    \/ \E t \in Transports : ReceiverEnds(t)

SpecGarbage == Init /\ [][NextGarbage]_vars

\* C15: the step in which the receive loop drops a malformed message leaves
\* the loop running and connected, the correlation table, the handles and
\* the subscription registry as they are.
C15_MalformedDropped ==
    [][dropped' # dropped =>
          /\ rcv' = rcv
          /\ connected' = connected
          /\ notified' = notified
          /\ message_handlers' = message_handlers
          /\ subscriptions' = subscriptions
          /\ call' = call
          /\ lastUpdate' = lastUpdate]_vars

\* C15 witness: after the last of the malformed messages was dropped an
\* update was dispatched to a listener; a request was answered as well.
C15_Witness ==
    /\ dropped.n = MaxDropped
    /\ dropped.updates = 0
    /\ lastUpdate.n = 1 /\ lastUpdate.invoked # <<>>
    /\ \E c \in Callers : Started(c, "test") /\ call[c].outcome = "returned"

\* the ids handed out so far: those of the request operations, those of the
\* envelopes sent and those of the pings being sent
Issued ==
    (SeenIds \cup {call[c].id : c \in Callers} \cup {ping[t].id : t \in Transports})
        \ {NoId}

\* C16: each generation of an id, by a request operation or by a heartbeat
\* ping, increments the counter, and the id it produces is none of the ids
\* handed out before (to requests, ended or not, to pings sent or being
\* sent); a ping is sent under the id generated for it, and the counter
\* changes in no other step; so the ids of any two requests, and of a
\* request and a ping, differ.
C16_DistinctIds ==
    [][/\ \A c \in Callers :
             (call[c].id = NoId /\ call'[c].id # NoId) =>
                 /\ message_counter' = message_counter + 1
                 /\ call'[c].id[2] = message_counter'
                 /\ call'[c].id \notin Issued
       /\ \A t \in Transports :
             (ping[t].id = NoId /\ ping'[t].id # NoId) =>
                 /\ message_counter' = message_counter + 1
                 /\ ping'[t].id[2] = message_counter'
                 /\ ping'[t].id \notin Issued
       /\ \A o \in sent' \ sent :
             o.type = "ping" => \E t \in Transports : o.id = ping[t].id
       /\ message_counter' # message_counter =>
             \/ \E c \in Callers : call[c].id = NoId /\ call'[c].id # NoId
             \/ \E t \in Transports : ping[t].id = NoId /\ ping'[t].id # NoId
       /\ \A c1, c2 \in Callers :
             (c1 # c2 /\ call'[c1].id # NoId) => call'[c1].id # call'[c2].id
       /\ \A c \in Callers, o \in sent' :
             (o.type = "ping" /\ call'[c].id # NoId) => o.id # call'[c].id
       /\ \A c \in Callers, t \in Transports :
             call'[c].id # NoId => ping'[t].id # call'[c].id]_vars

\* C16 witness: two requests and a ping were given ids within the same
\* millisecond; one of the requests had the smallest counter and has ended.
C16_Witness ==
    \E c1, c2 \in Callers, o \in sent :
        /\ c1 # c2 /\ Started(c1, "test") /\ Started(c2, "test")
        /\ o.type = "ping"
        /\ call[c1].id[1] = call[c2].id[1] /\ o.id[1] = call[c1].id[1]
        /\ call[c1].pc = "done" /\ call[c1].id[2] < call[c2].id[2]
        /\ call[c1].id[2] < o.id[2]

\* a session that is opened once; a subscriber and a test_domain caller; a
\* peer that sends, under the id of a request or without id, answers,
\* domain_update envelopes and envelopes of other types
NextRouting ==
    \/ ConnectOnce
    \/ ConnectOpened
    \/ SendConfig
    \/ \E c \in BatchCallers, ms \in SameMs : SubscribeCall(c, "a.com", CallbackOf(c), ms)
    \/ \E c \in TestCallers, ms \in SameMs : TestDomainCall(c, "a.com", ms)
    \/ \E c \in Callers : SendRequest(c)
    \/ \E c \in Callers : SubscribeResume(c)
    \/ \E c \in Callers : TestDomainResume(c)
    \/ \E c \in Callers : Timeout(c)
    \/ \E c \in Callers : TimeoutFinish(c)
    \/ \E t \in Transports, c \in Callers : PeerReply(t, c)
    \/ \E t \in Transports, c \in Callers, type \in {"welcome", "error"} : PeerOdd(t, c, type)
    \/ \E t \in Transports, id \in SeenIds \cup {NoId} : PeerPush(t, "a.com", id, {})

SpecRouting == Init /\ [][NextRouting]_vars

\* C17: a handle is resolved only by an envelope that carries the id it is
\* stored under, whatever the type of the envelope, and nothing else changes
\* in that step; a resolved handle keeps the envelope it got; and an update
\* is dispatched to listeners only when its id is empty or not in the table.
C17_CorrelatedIsResponse ==
    [][/\ \A c \in Callers :
             (call[c].fst = "pending" /\ call'[c].fst = "done") =>
                 /\ call'[c].fres.id = call[c].id
                 /\ call[c].id \in DOMAIN message_handlers
                 /\ message_handlers[call[c].id] = [owner |-> c, gen |-> call[c].gen]
                 /\ lastUpdate' = lastUpdate
                 /\ \A c2 \in Callers \ {c} : call'[c2] = call[c2]
       /\ \A c \in Callers :
             (call[c].fst = "done" /\ call'[c].gen = call[c].gen) =>
                 call'[c].fres = call[c].fres
       /\ lastUpdate'.n # lastUpdate.n =>
             /\ lastUpdate'.id = NoId \/ lastUpdate'.id \notin DOMAIN message_handlers
             /\ call' = call]_vars

\* C17 witness: with a listener registered for the domain, a domain_update
\* that carried the id of a waiting test_domain request has resolved the
\* handle of that request and was not dispatched.
C17_Witness ==
    \E c \in Callers :
        /\ Started(c, "test") /\ call[c].pc = "wait" /\ call[c].fst = "done"
        /\ call[c].fres.type = "domain_update"
        /\ subscriptions[call[c].fres.domain] # <<>>
        /\ lastUpdate.n = 0

\* C18: at most one receive loop reads from an open transport and at most
\* one heartbeat task is alive.
C18_OneLoopOneHeartbeat ==
    /\ Cardinality({t \in Transports : rcv[t] = "running" /\ wsState[t] = "open"}) <= 1
    /\ Cardinality({t \in Transports : hb[t] \in {"created", "sleeping", "in_send"}}) <= 1

\* C19: the step in which a receive loop ends on a fatal transport error
\* (the connection was closed abnormally, or receiving raised) sets connected
\* to FALSE and notifies the error observer, and leaves the correlation
\* table and every handle as they are.
C19_FatalErrorNotified ==
    [][\A t \in Transports :
          (/\ rcv[t] = "running" /\ rcv'[t] = "ended"
           /\ wsState[t] \in {"closed_err", "broken", "broken_closed"}) =>
              /\ connected' = FALSE
              /\ "error" \in notified'
              /\ message_handlers' = message_handlers
              /\ call' = call]_vars

\* connect and disconnect in any order; each connect may fail at either of
\* its steps; a peer that pushes updates and may drop the connection
NextConnect ==
    \/ ConnectCall
    \/ ConnectRefused
    \/ ConnectOpened
    \/ SendConfig
    \/ SendConfigFails
    \/ SendConfigRaises
    \/ DisconnectCall
    \/ DisconnectClosed
    \/ \E t \in Transports : ReceiverEnds(t)
    \/ \E t \in Transports : HeartbeatStart(t)
    \/ \E t \in Transports, ms \in SameMs : HeartbeatWake(t, ms)
    \/ \E t \in Transports : HeartbeatPing(t)
    \/ \E t \in Transports : HeartbeatPingFails(t)
    \/ \E t \in Transports : HeartbeatExit(t)
    \/ \E t \in Transports, how \in CloseKinds : PeerCloses(t, how)
    \/ \E t \in Transports : PeerPush(t, "a.com", NoId, {})
    \/ OnDomainUpdate

SpecConnect == Init /\ [][NextConnect]_vars

\* C20: the step in which connect fails leaves connected FALSE and the error
\* observer notified; when the transport of the attempt has been opened
\* (before the step or in it), it leaves that transport not open, no receive
\* loop running on it and no heartbeat of the attempt alive.
C20_FailedConnectCleansUp ==
    [][(ctl.pc \in {"connecting", "send_config"} /\ ctl'.last = "connect_failed"
            /\ ctl'.pc = "idle") =>
          /\ connected' = FALSE
          /\ "error" \in notified'
          /\ (ctl.pc = "send_config" \/ ws' # ws) =>
                /\ wsState'[ws'] # "open"
                /\ rcv'[ws'] # "running"
                /\ hb'[ws'] \notin {"created", "sleeping", "in_send"}]_vars

\* C21: a batch_test call never ends up waiting again on a handle that is
\* already resolved (the loop of lines 297-320 going round on the same
\* response for ever), whatever envelopes arrive under its id, so every
\* call on a connected session goes on to return or raise.
C21_BatchNeverSpins ==
    \A c \in Callers :
        Started(c, "batch") =>
            ~(call[c].pc = "spin" /\ call[c].fst = "done")

\* a session that is opened once; two subscribers to one domain, each with
\* its own callback; a peer that acknowledges, answers with an error, stays
\* silent, or closes the connection before or after a request is sent
NextSubscribeFails ==
    \/ ConnectOnce
    \/ ConnectOpened
    \/ SendConfig
    \/ SendConfigFails
    \/ \E c \in Subscribers, ms \in SameMs : SubscribeCall(c, "a.com", CallbackOf(c), ms)
    \/ \E c \in Callers : SendRequest(c)
    \/ \E c \in Callers : SendRequestFails(c)
    \/ \E c \in Callers : SubscribeResume(c)
    \/ \E c \in Callers : Timeout(c)
    \/ \E c \in Callers : TimeoutFinish(c)
    \/ \E t \in Transports, c \in Callers : PeerReply(t, c)
    \/ \E t \in Transports, c \in Callers : PeerError(t, c)
    \/ \E t \in Transports : PeerCloses(t, "closed_err")
    \/ \E t \in Transports : ReceiverEnds(t)

SpecSubscribeFails == Init /\ [][NextSubscribeFails]_vars

\* the ways a subscribe call fails
SubscribeFailures == {"not_connected", "send_failed", "remote_error", "timeout"}

\* C22: once subscribe(domain, cb) has ended in failure (not connected, send
\* failure, error-bearing acknowledgment, or acknowledgment timeout), cb is
\* not registered for domain, no other call having registered it.
C22_FailedSubscribeLeavesRegistry ==
    \A c \in Callers :
        (/\ call[c].kind = "subscribe" /\ call[c].pc = "done"
         /\ call[c].outcome \in SubscribeFailures
         /\ call[c].callback # NoCallback
         /\ \A o \in Callers \ {c} : call[o].callback # call[c].callback) =>
            call[c].callback \notin Range(subscriptions[call[c].domain])

\* C23: in every reachable state, connected implies that the receive loop of
\* the session's transport is running: once that loop has ended, for any
\* reason, connected is FALSE, so that a later request fails as
\* not-connected.
C23_ConnectedHasReceiver ==
    connected => (ws # 0 /\ rcv[ws] = "running")

====
